---- MODULE Spec2Model ----
(***************************************************************************)
(* Quad tree planet segment node (og/quadTree/Node.js).                    *)
(*                                                                         *)
(* A node is named by its path from the root (the sequence of partIds);    *)
(* node[p] and seg[p] hold the fields of the Node object at that place and *)
(* of the Segment it owns.  References between nodes (parentNode, nodes[], *)
(* neighbors[], _renderedNodes) are paths, NULL, or DESTROYED for a        *)
(* reference to an object destroy() has run on.                            *)
(***************************************************************************)
EXTENDS Integers, Sequences, FiniteSets, TLC

\* ---------------------------------------------------------------- constants

\* quadTree.js: child slots and sides
NW == 0
NE == 1
SW == 2
SE == 3
N == 0
E == 1
S == 2
W == 3

Sides == 0..3
Parts == 0..3

\* quadTree.js: traversal states (state is null after construction)
STATE_NULL == "null"
WALKTHROUGH == "WALKTHROUGH"
RENDERING == "RENDERING"
NOTRENDERING == "NOTRENDERING"

\* quadTree.js adjacency tables, indexed [side][partId]
OPSIDE == <<S, W, N, E>>
NEIGHBOUR == << <<-1, -1, NW, NE>>, <<NE, -1, SE, -1>>, <<SW, SE, -1, -1>>, <<-1, NW, -1, SW>> >>
OPPART == << <<SW, SE, NW, NE>>, <<NE, NW, SE, SW>>, <<SW, SE, NW, NE>>, <<NE, NW, SE, SW>> >>

opside(s) == OPSIDE[s + 1]
neighbour(s, part) == NEIGHBOUR[s + 1][part + 1]
oppart(s, part) == OPPART[s + 1][part + 1]

\* mercator.js: half side of the root extent, and the mercator latitude
\* cutoff (not a tile boundary at any zoom), on a plane scaled to integers
POLE == 8
MAX_LAT == 7

\* prepareForRendering: the near-field altitude, metres
NEAR_HEIGHT == 3000000

\* the ids of the two projections a segment can have
EPSG3857 == "EPSG:3857"
EPSG4326 == "EPSG:4326"

\* planet.terrain as the host configures it: gridSizeByZoom (index 1 is zoom
\* 0), maxZoom (the last zoom with terrain of its own) and fileGridSize
Terrain(sizes, maxZoom, fgs) ==
    [gridSizeByZoom |-> sizes, maxZoom |-> maxZoom, fileGridSize |-> fgs]

PlainTerrain == Terrain(<<4, 2, 2>>, 1, 4)

\* ------------------------------------------------------------------- bounds

\* the deepest zoom a path can name
TreeDepth == 2
\* frames the driver runs
MaxFrames == 2
\* clearTree / destroyBranches calls between frames
MaxMaint == 1
\* nodes one tree may construct, the root included
MaxCreated == 21
\* frames the driver runs when the camera stays high
QueueFrames == 3

\* ----------------------------------------------------------------- references

Paths == UNION {[1..k -> Parts] : k \in 0..TreeDepth}
Root == <<>>
NULL == <<-1>>
DESTROYED == <<-2>>
\* the outcome of a call that threw instead of returning
THROWN == <<-3>>

IsNode(r) == r # NULL /\ r # DESTROYED /\ r # THROWN
Parent(p) == SubSeq(p, 1, Len(p) - 1)
Child(p, k) == Append(p, k)
Pow2(n) == 2 ^ n
CeilDiv(a, b) == (a + b - 1) \div b
Abs(x) == IF x < 0 THEN -x ELSE x

\* visited: the nodes renderTree has run on since the frame began
VARIABLES node, seg, planet, camera, stack, frame, maint, cur, err, visited

vars == <<node, seg, planet, camera, stack, frame, maint, cur, err, visited>>

\* What one call handed to the external collaborators: the segments it called
\* loadTerrain() on and the segments it passed to _normalMapCreator.queue();
\* and, for every registered node addToRender matched, the side and the two
\* hasNeighbor flags its guard read; and the segments deleteMaterials() was
\* called on
NoLog == [loads |-> <<>>, queued |-> <<>>, matched |-> <<>>, deleted |-> <<>>]

\* The heap as one value, so that a handler is an operator from heap to heap.
\* err is "none" until a statement throws; log starts empty at every call.
Heap == [node |-> node, seg |-> seg, planet |-> planet, camera |-> camera,
         err |-> err, log |-> NoLog]

\* ------------------------------------------------------------- construction

NoNode == [live |-> FALSE, parentNode |-> NULL, partId |-> 0, nodeId |-> 0,
           state |-> STATE_NULL, appliedTerrainNodeId |-> -1,
           sideSize |-> [s \in Sides |-> 1], ready |-> FALSE,
           hasNeighbor |-> [s \in Sides |-> FALSE],
           neighbors |-> [s \in Sides |-> NULL],
           nodes |-> [i \in Parts |-> NULL], cameraInside |-> FALSE]

\* Node(segmentPrototype, planet, partId, parent, id, tileZoom, extent)
NewNode(partId, parent, id) ==
    [NoNode EXCEPT !.live = TRUE, !.parentNode = parent, !.partId = partId,
                   !.nodeId = partId + id]

MkExtent(swLon, swLat, neLon, neLat) ==
    [swLon |-> swLon, swLat |-> swLat, neLon |-> neLon, neLat |-> neLat]

NoVerts == [from |-> -1, i0 |-> 0, j0 |-> 0, size |-> 0]

NoSeg == [tileZoom |-> 0, extent |-> MkExtent(0, 0, 0, 0), tileX |-> 0, tileY |-> 0,
          gridSize |-> 1, ready |-> FALSE, terrainReady |-> FALSE,
          terrainIsLoading |-> FALSE, terrainExists |-> FALSE,
          normalMapReady |-> FALSE, parentNormalMapReady |-> FALSE,
          inTheQueue |-> FALSE, normalMapTexture |-> NULL,
          normalMapTextureBias |-> <<0, 0, 1>>, refreshIndexesBuffer |-> FALSE,
          hasBuffers |-> FALSE, tempVertices |-> NoVerts,
          terrainVertices |-> NoVerts, normalMapNormals |-> NoVerts,
          projection |-> EPSG3857]

\* new segmentPrototype(node, planet, tileZoom, extent): the tile coordinates
\* are derived from the extent
NewSegment(terrain, tileZoom, extent) ==
    [NoSeg EXCEPT !.tileZoom = tileZoom, !.extent = extent,
                  !.gridSize = IF tileZoom + 1 \in DOMAIN terrain.gridSizeByZoom
                               THEN terrain.gridSizeByZoom[tileZoom + 1] ELSE 1,
                  !.tileX = (extent.swLon + POLE) \div (extent.neLon - extent.swLon),
                  !.tileY = (POLE - extent.neLat) \div (extent.neLat - extent.swLat)]

RootExtent == MkExtent(-POLE, -POLE, POLE, POLE)

\* Extent.getWidth / getHeight
getWidth(ext) == ext.neLon - ext.swLon
getHeight(ext) == ext.neLat - ext.swLat

\* Extent.isInside(lonlat)
isInside(ext, pos) ==
    /\ pos[1] >= ext.swLon /\ pos[1] <= ext.neLon
    /\ pos[2] >= ext.swLat /\ pos[2] <= ext.neLat

\* createChildrenNodes: the extent handed to the child in slot part
ChildExtentSkewed(ext, part) ==
    LET size_x == getWidth(ext) \div 2
        size_y == getHeight(ext) \div 2
    IN  CASE part = NW -> MkExtent(ext.swLon, ext.swLat + size_y, ext.swLon + size_x, ext.neLat)
          [] part = NE -> MkExtent(ext.swLon + size_x, ext.swLat + size_y, ext.neLon, ext.neLat)
          [] part = SW -> MkExtent(ext.swLon, ext.swLat, ext.swLon + size_x, ext.swLat + size_y)
          [] OTHER -> MkExtent(ext.swLon + size_x, ext.swLat, ext.neLon, ext.neLat)

ChildExtent(ext, part) ==
    LET size_x == getWidth(ext) \div 2
        size_y == getHeight(ext) \div 2
    IN  CASE part = NW -> MkExtent(ext.swLon, ext.swLat + size_y, ext.swLon + size_x, ext.neLat)
          [] part = NE -> MkExtent(ext.swLon + size_x, ext.swLat + size_y, ext.neLon, ext.neLat)
          [] part = SW -> MkExtent(ext.swLon, ext.swLat, ext.swLon + size_x, ext.swLat + size_y)
          [] OTHER -> MkExtent(ext.swLon + size_x, ext.swLat, ext.neLon, ext.swLat + size_y)

\* createChildrenNodes: the id base handed to the four constructors
ChildIdBaseNoStep(nodeId) == nodeId * 4

ChildIdBase(nodeId) == nodeId * 4 + 1

createChildrenNodes(h, p) ==
    LET ext == h.seg[p].extent
        z == h.seg[p].tileZoom + 1
        id == ChildIdBase(h.node[p].nodeId)
        t == h.planet.terrain
    IN  [h EXCEPT
           !.node[p].ready = TRUE,
           !.node[p].nodes = [k \in Parts |-> Child(p, k)],
           !.node[Child(p, NW)] = NewNode(NW, p, id),
           !.seg[Child(p, NW)] = NewSegment(t, z, ChildExtent(ext, NW)),
           !.node[Child(p, NE)] = NewNode(NE, p, id),
           !.seg[Child(p, NE)] = NewSegment(t, z, ChildExtent(ext, NE)),
           !.node[Child(p, SW)] = NewNode(SW, p, id),
           !.seg[Child(p, SW)] = NewSegment(t, z, ChildExtent(ext, SW)),
           !.node[Child(p, SE)] = NewNode(SE, p, id),
           !.seg[Child(p, SE)] = NewSegment(t, z, ChildExtent(ext, SE)),
           !.planet.createdNodesCount = h.planet.createdNodesCount + 4]

\* ------------------------------------------------------------------ queries

RECURSIVE AncestorsWalkthrough(_, _)
AncestorsWalkthrough(h, pn) ==
    IF ~IsNode(pn) THEN TRUE
    ELSE IF h.node[pn].state # WALKTHROUGH THEN FALSE
    ELSE AncestorsWalkthrough(h, h.node[pn].parentNode)

getStateOwn(h, p) == h.node[p].state

getState(h, p) ==
    IF AncestorsWalkthrough(h, h.node[p].parentNode) THEN h.node[p].state
    ELSE NOTRENDERING

\* getCommonSide on the two segments' extents; tileZoom is this node's
getCommonSide(a, tileZoom, b) ==
    IF \/ (a.neLat <= b.neLat /\ a.swLat >= b.swLat)
       \/ (a.neLat >= b.neLat /\ a.swLat <= b.swLat)
    THEN IF a.neLon = b.swLon THEN E
         ELSE IF a.swLon = b.neLon THEN W
         ELSE IF tileZoom > 0
              THEN IF a.neLon = POLE /\ b.swLon = -POLE THEN E
                   ELSE IF a.swLon = -POLE /\ b.neLon = POLE THEN E
                   ELSE -1
              ELSE -1
    ELSE IF \/ (a.swLon >= b.swLon /\ a.neLon <= b.neLon)
            \/ (a.swLon <= b.swLon /\ a.neLon >= b.neLon)
    THEN IF a.neLat = b.swLat THEN N
         ELSE IF a.swLat = b.neLat THEN S
         ELSE IF a.neLat = POLE /\ b.swLat = MAX_LAT THEN N
         ELSE IF a.swLat = -POLE /\ b.neLat = -MAX_LAT THEN S
         ELSE -1
    ELSE -1

\* getEqualNeighbor: the descent along the mirrored path; i counts the
\* recorded partIds still to mirror, pn may turn into "no node"
RECURSIVE Descend(_, _, _, _, _)
Descend(h, pn, side, pathId, i) ==
    IF ~IsNode(pn) \/ i = 0 THEN pn
    ELSE LET part == oppart(side, pathId[i])
             nds == h.node[pn].nodes
         IN  Descend(h, IF part \in DOMAIN nds THEN nds[part] ELSE NULL,
                     side, pathId, i - 1)

\* getEqualNeighbor: the walk up; pathId holds the partIds pushed so far
RECURSIVE WalkUp(_, _, _, _)
WalkUp(h, pn, side, pathId) ==
    IF ~IsNode(h.node[pn].parentNode) THEN NULL
    ELSE LET pushed == Append(pathId, h.node[pn].partId)
             part == neighbour(side, h.node[pn].partId)
             up == h.node[pn].parentNode
         IN  IF part # -1 THEN Descend(h, up, opside(side), pushed, Len(pushed))
             ELSE WalkUp(h, up, side, pushed)

\* getEqualNeighbor(side); on a node without parent the sibling branch
\* dereferences a null parentNode and throws
getEqualNeighbor(h, p, side) ==
    LET part == neighbour(side, h.node[p].partId)
    IN  IF part # -1
        THEN IF ~IsNode(h.node[p].parentNode) THEN THROWN
             ELSE LET nds == h.node[h.node[p].parentNode].nodes
                  IN  IF part \in DOMAIN nds THEN nds[part] ELSE NULL
        ELSE WalkUp(h, p, side, <<>>)

\* ------------------------------------------------- the segment's operations

\* Segment.createPlainSegment
createPlainSegment(h, p) ==
    [h EXCEPT !.seg[p].ready = TRUE, !.seg[p].hasBuffers = TRUE]

\* Segment.loadTerrain: a request to the terrain provider; the segment is
\* loading until the provider answers
loadTerrain(h, p) ==
    [h EXCEPT !.seg[p].terrainIsLoading =
                 IF h.seg[p].terrainReady THEN h.seg[p].terrainIsLoading ELSE TRUE,
              !.log.loads = Append(h.log.loads, p)]

\* planet._normalMapCreator.queue(segment)
queue(h, p) ==
    [h EXCEPT !.seg[p].inTheQueue = TRUE,
              !.planet.queue = Append(h.planet.queue, p),
              !.log.queued = Append(h.log.queued, p)]

\* 2 << k as the engine computes it: the count taken modulo 32, the result a
\* signed 32-bit integer
Shl2(k) ==
    LET sh == k % 32
    IN  IF sh = 31 THEN 0
        ELSE IF sh = 30 THEN (-2147483647) - 1
        ELSE 2 ^ (sh + 1)

\* while (pn.parentNode && !pn.segment.terrainReady) pn = pn.parentNode
RECURSIVE UpToTerrainReady(_, _)
UpToTerrainReady(h, pn) ==
    IF IsNode(h.node[pn].parentNode) /\ ~h.seg[pn].terrainReady
    THEN UpToTerrainReady(h, h.node[pn].parentNode)
    ELSE pn

\* while (pn.parentNode && !pn.segment.normalMapReady) pn = pn.parentNode
RECURSIVE UpToNormalMapReady(_, _)
UpToNormalMapReady(h, pn) ==
    IF IsNode(h.node[pn].parentNode) /\ ~h.seg[pn].normalMapReady
    THEN UpToNormalMapReady(h, h.node[pn].parentNode)
    ELSE pn

\* while (pn.parentNode && pn.segment.tileZoom !== maxZ) pn = pn.parentNode
RECURSIVE UpToZoom(_, _, _)
UpToZoom(h, pn, maxZ) ==
    IF IsNode(h.node[pn].parentNode) /\ h.seg[pn].tileZoom # maxZ
    THEN UpToZoom(h, h.node[pn].parentNode, maxZ)
    ELSE pn

\* ------------------------------------------------------ whileTerrainLoading

\* lines 527-598: the mesh taken from the terrain of ancestor pn; the log
\* records the deleteBuffers call of line 534
applyAncestorTerrain(h, p, pn, dZ2, offsetX, offsetY) ==
    LET pg == h.seg[pn].gridSize
        pid == h.node[pn].nodeId
    IN  IF pg >= dZ2
        THEN LET gridSize == pg \div dZ2
             IN  [h EXCEPT
                    !.seg[p].hasBuffers = TRUE,
                    !.seg[p].refreshIndexesBuffer = TRUE,
                    !.seg[p].gridSize = gridSize,
                    !.node[p].sideSize = [s \in Sides |-> gridSize],
                    !.seg[p].tempVertices =
                        [from |-> pid, i0 |-> gridSize * offsetY,
                         j0 |-> gridSize * offsetX, size |-> gridSize],
                    !.node[p].appliedTerrainNodeId = pid,
                    !.log.deleted = Append(@, p)]
        ELSE [h EXCEPT
                !.seg[p].hasBuffers = TRUE,
                !.seg[p].refreshIndexesBuffer = TRUE,
                !.seg[p].gridSize = 1,
                !.node[p].sideSize = [s \in Sides |-> 1],
                !.seg[p].tempVertices =
                    [from |-> pid, i0 |-> (pg * offsetY) \div dZ2,
                     j0 |-> (pg * offsetX) \div dZ2, size |-> 0],
                !.node[p].appliedTerrainNodeId = pid,
                !.log.deleted = Append(@, p)]

beyondMaxZoomUndeclared(h, p, pn, tempVertices, tempNormalMapNormals) ==
    LET up == UpToZoom(h, p, h.planet.terrain.maxZoom)
        h1 == IF h.seg[up].ready THEN h ELSE createPlainSegment(h, up)
    IN  loadTerrain(h1, up)

\* lines 600-625: a node deeper than terrain.maxZoom
beyondMaxZoom(h, p, pn, tempVertices, tempNormalMapNormals) ==
    IF h.seg[pn].tileZoom >= h.planet.terrain.maxZoom
    THEN LET h1 == [h EXCEPT !.seg[p].terrainReady = TRUE,
                             !.seg[p].terrainIsLoading = FALSE,
                             !.node[p].appliedTerrainNodeId = h.node[p].nodeId]
         IN  IF ~h.seg[pn].terrainExists THEN h1
             ELSE LET h2 == [h1 EXCEPT
                               !.seg[p].terrainExists = TRUE,
                               !.seg[p].terrainVertices = tempVertices,
                               !.seg[p].normalMapNormals = tempNormalMapNormals]
                  IN  IF tempNormalMapNormals # NoVerts THEN h2
                      ELSE [h2 EXCEPT !.err = "TypeError"]
    ELSE LET up == UpToZoom(h, p, h.planet.terrain.maxZoom)
             h1 == IF h.seg[up].ready THEN h ELSE createPlainSegment(h, up)
         IN  loadTerrain(h1, up)

inheritTerrainReapplied(h0, p, pn) ==
    IF ~h0.seg[pn].terrainReady THEN h0
    ELSE LET dZ2 == Shl2(h0.seg[p].tileZoom - h0.seg[pn].tileZoom - 1)
             offsetX == h0.seg[p].tileX - h0.seg[pn].tileX * dZ2
             offsetY == h0.seg[p].tileY - h0.seg[pn].tileY * dZ2
             applied == h0.seg[pn].terrainExists
             h1 == IF applied
                   THEN applyAncestorTerrain(h0, p, pn, dZ2, offsetX, offsetY)
                   ELSE h0
             fgsZ == h0.planet.terrain.fileGridSize \div dZ2
             tempVertices == IF applied THEN h1.seg[p].tempVertices ELSE NoVerts
             tempNormalMapNormals ==
                 IF applied /\ h0.seg[pn].gridSize >= dZ2
                 THEN [from |-> h0.node[pn].nodeId, i0 |-> fgsZ * offsetY,
                       j0 |-> fgsZ * offsetX, size |-> fgsZ]
                 ELSE NoVerts
         IN  IF h0.seg[p].tileZoom > h0.planet.terrain.maxZoom
             THEN beyondMaxZoom(h1, p, pn, tempVertices, tempNormalMapNormals)
             ELSE h1

\* lines 516-626: pn is where the walk up for ready terrain stopped
inheritTerrain(h0, p, pn) ==
    IF ~h0.seg[pn].terrainReady THEN h0
    ELSE LET dZ2 == Shl2(h0.seg[p].tileZoom - h0.seg[pn].tileZoom - 1)
             offsetX == h0.seg[p].tileX - h0.seg[pn].tileX * dZ2
             offsetY == h0.seg[p].tileY - h0.seg[pn].tileY * dZ2
             applied == h0.seg[pn].terrainExists
                        /\ h0.node[p].appliedTerrainNodeId # h0.node[pn].nodeId
             h1 == IF applied
                   THEN applyAncestorTerrain(h0, p, pn, dZ2, offsetX, offsetY)
                   ELSE h0
             fgsZ == h0.planet.terrain.fileGridSize \div dZ2
             tempVertices == IF applied THEN h1.seg[p].tempVertices ELSE NoVerts
             tempNormalMapNormals ==
                 IF applied /\ h0.seg[pn].gridSize >= dZ2
                 THEN [from |-> h0.node[pn].nodeId, i0 |-> fgsZ * offsetY,
                       j0 |-> fgsZ * offsetX, size |-> fgsZ]
                 ELSE NoVerts
         IN  IF h0.seg[p].tileZoom > h0.planet.terrain.maxZoom
             THEN beyondMaxZoom(h1, p, pn, tempVertices, tempNormalMapNormals)
             ELSE h1

\* lines 510-514: the walk up from the node, its plain segment made
findTerrain(h0, p) == inheritTerrain(h0, p, UpToTerrainReady(h0, p))

whileTerrainLoading(h, p) ==
    findTerrain(IF h.seg[p].ready THEN h ELSE createPlainSegment(h, p), p)

\* --------------------------------------------------- whileNormalMapCreating

enqueueGuardNoFlag(s, maxZ) ==
    s.tileZoom <= maxZ /\ ~s.terrainIsLoading /\ s.terrainReady

\* line 463: whether the node's own segment goes to the queue
enqueueGuard(s, maxZ) ==
    s.tileZoom <= maxZ /\ ~s.terrainIsLoading /\ s.terrainReady /\ ~s.inTheQueue

\* lines 481-497: a node deeper than maxZoom, its texture taken from pn
enqueueAncestor(h1, p, pn, maxZ) ==
    IF h1.seg[p].tileZoom <= maxZ THEN h1
    ELSE IF h1.seg[pn].tileZoom = maxZ
    THEN [h1 EXCEPT !.seg[p].parentNormalMapReady = TRUE]
    ELSE LET up == UpToZoom(h1, p, maxZ)
         IN  IF ~h1.seg[up].ready
             THEN loadTerrain(createPlainSegment(h1, up), up)
             ELSE IF ~h1.seg[up].inTheQueue /\ ~h1.seg[up].terrainIsLoading
             THEN queue(h1, up)
             ELSE h1

\* lines 473-478: pn is where the walk up for a ready normal map stopped
inheritNormalMap(h0, p, pn) ==
    LET dZ2 == Shl2(h0.seg[p].tileZoom - h0.seg[pn].tileZoom - 1)
    IN  enqueueAncestor(
            [h0 EXCEPT
               !.seg[p].normalMapTexture = h0.seg[pn].normalMapTexture,
               !.seg[p].normalMapTextureBias =
                   <<h0.seg[p].tileX - h0.seg[pn].tileX * dZ2,
                     h0.seg[p].tileY - h0.seg[pn].tileY * dZ2, dZ2>>],
            p, pn, h0.planet.terrain.maxZoom)

\* lines 467-471: the walk up from the node
findNormalMap(h0, p) == inheritNormalMap(h0, p, UpToNormalMapReady(h0, p))

whileNormalMapCreating(h, p) ==
    findNormalMap(IF enqueueGuard(h.seg[p], h.planet.terrain.maxZoom)
                  THEN queue(h, p) ELSE h, p)

\* -------------------------------------------------------------- addToRender

\* lines 399-414: the side sizes of this node (grid ag, zoom az) and of the
\* registered node (grid bg, zoom bz); ld = num / den
negotiate(ag, az, bg, bz) ==
    LET num == ag * Pow2(az)
        den == bg * Pow2(bz)
    IN  IF num > den THEN <<CeilDiv(ag * den, num), bg>>
        ELSE IF num < den THEN <<ag, CeilDiv(bg * num, den)>>
        ELSE <<ag, bg>>

\* the match as the log keeps it
Match(h, p, ni, cs) ==
    [ni |-> ni, cs |-> cs, a |-> h.node[p].hasNeighbor[cs],
     b |-> h.node[ni].hasNeighbor[opside(cs)]]

linkOnBothFalse(h, p, ni, cs) ==
    IF cs = -1 THEN h
    ELSE LET opcs == opside(cs)
             sz == negotiate(h.seg[p].gridSize, h.seg[p].tileZoom,
                             h.seg[ni].gridSize, h.seg[ni].tileZoom)
         IN  IF h.node[p].hasNeighbor[cs] \/ h.node[ni].hasNeighbor[opcs]
             THEN [h EXCEPT !.node[p].neighbors[cs] = ni,
                            !.node[ni].neighbors[opcs] = p,
                            !.log.matched = Append(@, Match(h, p, ni, cs))]
             ELSE [h EXCEPT !.node[p].neighbors[cs] = ni,
                            !.node[ni].neighbors[opcs] = p,
                            !.node[p].hasNeighbor[cs] = TRUE,
                            !.node[ni].hasNeighbor[opcs] = TRUE,
                            !.node[p].sideSize[cs] = sz[1],
                            !.node[ni].sideSize[opcs] = sz[2],
                            !.log.matched = Append(@, Match(h, p, ni, cs))]

\* lines 390-416: registered node ni has side cs in common with node p
linkOn(h, p, ni, cs) ==
    IF cs = -1 THEN h
    ELSE LET opcs == opside(cs)
             sz == negotiate(h.seg[p].gridSize, h.seg[p].tileZoom,
                             h.seg[ni].gridSize, h.seg[ni].tileZoom)
         IN  IF h.node[p].hasNeighbor[cs] /\ h.node[ni].hasNeighbor[opcs]
             THEN [h EXCEPT !.node[p].neighbors[cs] = ni,
                            !.node[ni].neighbors[opcs] = p,
                            !.log.matched = Append(@, Match(h, p, ni, cs))]
             ELSE [h EXCEPT !.node[p].neighbors[cs] = ni,
                            !.node[ni].neighbors[opcs] = p,
                            !.node[p].hasNeighbor[cs] = TRUE,
                            !.node[ni].hasNeighbor[opcs] = TRUE,
                            !.node[p].sideSize[cs] = sz[1],
                            !.node[ni].sideSize[opcs] = sz[2],
                            !.log.matched = Append(@, Match(h, p, ni, cs))]

\* lines 388-416: the loop body for registered node ni
link(h, p, ni) ==
    linkOn(h, p, ni,
           getCommonSide(h.seg[p].extent, h.seg[p].tileZoom, h.seg[ni].extent))

RECURSIVE linkAll(_, _, _)
\* line 387: on from renderedNodes[i] after the body ran on it
linkNext(h1, p, i) ==
    IF h1.err # "none" THEN h1 ELSE linkAll(h1, p, i - 1)

linkAll(h, p, i) ==
    IF i = 0 THEN h
    ELSE linkNext(link(h, p, h.planet.renderedNodes[i]), p, i)

\* line 418
pushRendered(h1, p) ==
    IF h1.err # "none" THEN h1
    ELSE [h1 EXCEPT !.planet.renderedNodes = Append(h1.planet.renderedNodes, p)]

addToRender(h, p) ==
    pushRendered(linkAll([h EXCEPT !.node[p].state = RENDERING], p,
                         Len(h.planet.renderedNodes)), p)

\* --------------------------------------------------------------- renderNode

\* lines 347-349: whileTerrainLoading returned true
requestTerrain(w, p) ==
    IF w.err # "none" THEN w ELSE loadTerrain(w, p)

\* lines 362-374
renderZoomed(h1, p) ==
    LET z == h1.seg[p].tileZoom
        h2 == IF ~h1.node[p].cameraInside /\ z > h1.planet.maxCurrZoom
              THEN [h1 EXCEPT !.planet.maxCurrZoom = z] ELSE h1
    IN  IF h1.err # "none" THEN h1
        ELSE addToRender(IF z < h2.planet.minCurrZoom
                         THEN [h2 EXCEPT !.planet.minCurrZoom = z] ELSE h2, p)

\* lines 352-374
renderLoaded(h0, p, onlyTerrain) ==
    IF h0.err # "none" THEN h0
    ELSE IF onlyTerrain THEN [h0 EXCEPT !.node[p].state = NOTRENDERING]
    ELSE renderZoomed(IF /\ h0.planet.lightEnabled
                         /\ ~h0.seg[p].normalMapReady
                         /\ ~h0.seg[p].parentNormalMapReady
                      THEN whileNormalMapCreating(h0, p) ELSE h0, p)

renderNode(h, p, onlyTerrain) ==
    renderLoaded(IF h.seg[p].terrainReady THEN h
                 ELSE requestTerrain(whileTerrainLoading(h, p), p),
                 p, onlyTerrain)

prepareForRendering(h, p, height, altVis, onlyTerrain) ==
    IF height < NEAR_HEIGHT
    THEN IF altVis THEN renderNode(h, p, onlyTerrain)
         ELSE [h EXCEPT !.node[p].state = NOTRENDERING]
    ELSE renderNode(h, p, onlyTerrain)

traverseNodesAlways(h, p) == createChildrenNodes(h, p)

traverseNodesRegistered(h, p) ==
    pushRendered(IF h.node[p].ready THEN h ELSE createChildrenNodes(h, p), p)

\* traverseNodes up to the four recursive calls, which the stack carries
traverseNodes(h, p) ==
    IF h.node[p].ready THEN h ELSE createChildrenNodes(h, p)

\* --------------------------------------------------------------- renderTree

decideNoFloor(s, terrain, visible, maxZoom, accept) ==
    IF ~visible THEN "hide"
    ELSE IF s.tileZoom = maxZoom \/ (maxZoom \in {-1, 0} /\ accept) THEN "prepare"
    ELSE "split"

\* lines 316-328: "split" for traverseNodes, "prepare" for
\* prepareForRendering, "hide" for the final else
decide(s, terrain, visible, maxZoom, accept) ==
    IF ~visible THEN "hide"
    ELSE IF s.tileZoom < 2 /\ s.normalMapReady THEN "split"
    ELSE IF s.tileZoom = maxZoom \/ (maxZoom \in {-1, 0} /\ accept) THEN "prepare"
    ELSE IF s.tileZoom < Len(terrain.gridSizeByZoom) - 1 THEN "split"
    ELSE "prepare"

\* lines 283-289: the extent test is made for a mercator segment while the
\* camera is within MAX_LAT, and for an equirectangular segment anywhere;
\* otherwise inside stays undefined
insideOf(s, cam, in) ==
    IF Abs(cam.lonLat[2]) <= MAX_LAT /\ s.projection = EPSG3857 THEN in.inside
    ELSE IF s.projection = EPSG4326 THEN in.inside
    ELSE FALSE

\* lines 276-299: cameraInside of node p, in.inside being the extent test of
\* the camera position
cameraInsideOf(h, p, in) ==
    LET pa == h.node[p].parentNode
    IN  IF IsNode(pa)
        THEN h.node[pa].cameraInside /\ insideOf(h.seg[p], h.camera, in)
        ELSE TRUE

\* the branch renderTree takes on node p for the camera's answer in
decision(h, p, maxZoom, in) ==
    decide(h.seg[p], h.planet.terrain, in.inFrustum \/ cameraInsideOf(h, p, in),
           maxZoom, in.accept)

hideForgotten(h, p) == h

\* lines 326-328: the node is not shown in this frame
hide(h, p) == [h EXCEPT !.node[p].state = NOTRENDERING]

\* renderTree(maxZoom) on node p up to the recursive calls; in is the camera's
\* answer for this node: inFrustum, altVis, accept (acceptForRendering) and
\* inside (the extent test of the camera position)
renderTree(h, p, maxZoom, height, in) ==
    LET h0 == [h EXCEPT !.node[p].state = WALKTHROUGH,
                        !.node[p].neighbors = [s \in Sides |-> NULL]]
        pa == h0.node[p].parentNode
        camIn == cameraInsideOf(h0, p, in)
        h1 == [h0 EXCEPT !.node[p].cameraInside = camIn,
                         !.camera.insideSegment =
                             IF IsNode(pa) /\ camIn THEN p ELSE h0.camera.insideSegment]
        onlyTerrain == FALSE
        d == decision(h1, p, maxZoom, in)
    IN  CASE d = "split" -> traverseNodes(h1, p)
          [] d = "prepare" -> prepareForRendering(h1, p, height, in.altVis, onlyTerrain)
          [] OTHER -> hide(h1, p)

\* ---------------------------------------------------------- tree maintenance

\* n[k] && n[k].neighbors && (n[k].neighbors[opposite] = null)
unlinkSide(h, p, k) ==
    LET n == h.node[p].neighbors[k]
    IN  IF IsNode(n) /\ h.node[n].live
        THEN [h EXCEPT !.node[n].neighbors[opside(k)] = NULL]
        ELSE h

\* every reference left to the object at p now refers to a destroyed object
Dangle(r, p) == IF r = p THEN DESTROYED ELSE r

DangleSeq(sq, p) ==
    IF \E i \in DOMAIN sq : sq[i] = p
    THEN [i \in DOMAIN sq |-> Dangle(sq[i], p)]
    ELSE sq

\* the neighbour slots of the nodes in holders that still refer to p
RECURSIVE DangleNeighbors(_, _, _)
DangleNeighbors(h, p, holders) ==
    IF holders = {} THEN h
    ELSE LET q == CHOOSE x \in holders : TRUE
         IN  DangleNeighbors([h EXCEPT !.node[q].neighbors[N] = Dangle(@, p),
                                       !.node[q].neighbors[E] = Dangle(@, p),
                                       !.node[q].neighbors[S] = Dangle(@, p),
                                       !.node[q].neighbors[W] = Dangle(@, p)],
                             p, holders \ {q})

\* lines 639-643: the object at p is gone
dangling(h2, p) ==
    DangleNeighbors(h2, p, {q \in Paths : \E s \in Sides : h2.node[q].neighbors[s] = p})

\* lines 632-643
destroyed(h1, p) ==
    dangling([h1 EXCEPT
                !.node[p] = NoNode,
                !.seg[p] = NoSeg,
                !.planet.renderedNodes = DangleSeq(h1.planet.renderedNodes, p),
                !.planet.queue = DangleSeq(h1.planet.queue, p),
                !.camera.insideSegment = Dangle(h1.camera.insideSegment, p)], p)

destroy(h, p) ==
    destroyed(unlinkSide(unlinkSide(unlinkSide(unlinkSide(h, p, N), p, E), p, S),
                         p, W), p)

RECURSIVE destroyBranches(_, _)
RECURSIVE destroyEach(_, _, _)
RECURSIVE destroyNext(_, _, _)
\* lines 681-685 for nodesToRemove[i..]
destroyEach(h, rem, i) ==
    IF i > Len(rem) THEN h
    ELSE destroyNext(destroyBranches(h, rem[i]), rem, i)

\* line 683 and on to nodesToRemove[i + 1]
destroyNext(h1, rem, i) ==
    IF h1.err # "none" THEN h1
    ELSE destroyEach(destroy(h1, rem[i]), rem, i + 1)

destroyBranches(h, p) ==
    IF ~h.node[p].ready THEN h
    ELSE LET nds == h.node[p].nodes
             rem == [i \in 1..Cardinality(DOMAIN nds) |-> nds[i - 1]]
             h1 == [h EXCEPT !.node[p].ready = FALSE, !.node[p].nodes = <<>>]
         IN  destroyEach(h1, rem, 1)

RECURSIVE clearTree(_, _)
RECURSIVE clearEach(_, _, _)
RECURSIVE clearNext(_, _, _)
\* lines 655-657 for this.nodes[i..]; a null slot throws
clearEach(h, p, i) ==
    IF i \notin DOMAIN h.node[p].nodes THEN h
    ELSE IF ~IsNode(h.node[p].nodes[i]) THEN [h EXCEPT !.err = "TypeError"]
    ELSE clearNext(clearTree(h, h.node[p].nodes[i]), p, i)

\* line 655: on to this.nodes[i + 1]
clearNext(h1, p, i) ==
    IF h1.err # "none" THEN h1 ELSE clearEach(h1, p, i + 1)

clearTree(h, p) ==
    LET state == getState(h, p)
    IN  IF state = NOTRENDERING \/ state = RENDERING THEN destroyBranches(h, p)
        ELSE clearEach(h, p, 0)

\* clearBranches: the loop counter i is declared nowhere and the module is
\* strict code, so the assignment i = 0 that opens the loop throws
clearBranches(h, p) == [h EXCEPT !.err = "ReferenceError"]

\* ------------------------------------------------------------------ actions

\* the camera's answers renderTree can get for node p: the frustum can only
\* contain tiles of the strip in view, the camera position decides inside
ViewHalfWidth == POLE \div 2

InView(ext) ==
    /\ ext.swLon < ViewHalfWidth /\ ext.neLon > -ViewHalfWidth
    /\ ext.neLat > 0

NoAnswer == [inFrustum |-> FALSE, altVis |-> FALSE, accept |-> FALSE, inside |-> FALSE]

\* an answer the call does not read is fixed, so that two calls that differ
\* only in it are one call
CameraAnswers(p) ==
    LET camIn == cameraInsideOf(Heap, p,
                     [NoAnswer EXCEPT !.inside = isInside(seg[p].extent, camera.lonLat)])
    IN  {in \in [inFrustum : BOOLEAN, altVis : BOOLEAN, accept : BOOLEAN,
                 inside : {isInside(seg[p].extent, camera.lonLat)}] :
           LET d == decide(seg[p], planet.terrain, in.inFrustum \/ camIn,
                           camera.maxZoom, in.accept)
               dAccept == decide(seg[p], planet.terrain, in.inFrustum \/ camIn,
                                 camera.maxZoom, ~in.accept)
           IN  /\ in.inFrustum => (InView(seg[p].extent) /\ ~camIn)
               /\ in.accept => d # dAccept
               /\ in.altVis => (d = "prepare" /\ camera.height < NEAR_HEIGHT)}

CamHeights == {1000000, 5000000}
CamPositions == {<<1, 1>>}

\* cur: the last call made on the tree, with its inputs and what it returned
NoCall == [op |-> "none", n |-> NULL, in |-> NoAnswer, side |-> -1, res |-> NULL,
           log |-> NoLog]

NewPlanet(terrain, light) ==
    [renderedNodes |-> <<>>, minCurrZoom |-> 99, maxCurrZoom |-> -1,
     createdNodesCount |-> 1, queue |-> <<>>, lightEnabled |-> light,
     terrain |-> terrain]

\* the planet after construction: one root node, partId NW, id base 0
InitWith(terrain, light) ==
    /\ node = [q \in Paths |-> IF q = Root THEN NewNode(NW, NULL, 0) ELSE NoNode]
    /\ seg = [q \in Paths |-> IF q = Root THEN NewSegment(terrain, 0, RootExtent) ELSE NoSeg]
    /\ planet = NewPlanet(terrain, light)
    /\ camera = [insideSegment |-> NULL, height |-> 5000000, lonLat |-> <<1, 1>>,
                 maxZoom |-> -1]
    /\ stack = <<>>
    /\ frame = 0
    /\ maint = 0
    /\ cur = NoCall
    /\ err = "none"
    /\ visited = {}

Init == InitWith(PlainTerrain, FALSE)

Commit(h) ==
    /\ node' = h.node
    /\ seg' = h.seg
    /\ planet' = h.planet
    /\ camera' = h.camera
    /\ err' = h.err

Idle == stack = <<>> /\ err = "none"

\* the driver starts a frame: it resets the planet's accounting and calls
\* renderTree(maxZoom) on the root
BeginFrameOf(limit, heights) ==
    /\ Idle
    /\ frame < limit
    /\ \E ht \in heights, pos \in CamPositions :
          /\ camera' = [camera EXCEPT !.height = ht, !.lonLat = pos, !.maxZoom = -1]
          /\ planet' = [planet EXCEPT !.renderedNodes = <<>>, !.minCurrZoom = 99,
                                      !.maxCurrZoom = -1]
    /\ stack' = <<Root>>
    /\ frame' = frame + 1
    /\ cur' = [NoCall EXCEPT !.op = "beginFrame"]
    /\ visited' = {}
    /\ UNCHANGED <<node, seg, maint, err>>

BeginFrame == BeginFrameOf(MaxFrames, CamHeights)

\* one call of renderTree: the node on top of the call stack; a call that
\* took the traverseNodes branch goes on into the four children
RenderTree ==
    /\ stack # <<>>
    /\ err = "none"
    /\ \E in \in CameraAnswers(Head(stack)) :
          \E h \in {renderTree(Heap, Head(stack), camera.maxZoom, camera.height, in)} :
             /\ Commit(h)
             /\ stack' = IF h.err # "none" THEN <<>>
                         ELSE IF decision(Heap, Head(stack), camera.maxZoom, in) = "split"
                         THEN <<Child(Head(stack), NW), Child(Head(stack), NE),
                                Child(Head(stack), SW), Child(Head(stack), SE)>>
                              \o Tail(stack)
                         ELSE Tail(stack)
             /\ cur' = [NoCall EXCEPT !.op = "renderTree", !.n = Head(stack),
                                      !.in = in, !.log = h.log]
             /\ visited' = visited \cup {Head(stack)}
    /\ UNCHANGED <<frame, maint>>

ClearTree ==
    /\ Idle
    /\ maint < MaxMaint
    /\ LET h == clearTree(Heap, Root)
       IN  /\ Commit(h)
           /\ cur' = [NoCall EXCEPT !.op = "clearTree", !.n = Root]
    /\ maint' = maint + 1
    /\ UNCHANGED <<stack, frame, visited>>

\* destroyBranches on a node that has children
DestroyBranchesAt(p) ==
    /\ node[p].live /\ node[p].ready
    /\ LET h == destroyBranches(Heap, p)
       IN  /\ Commit(h)
           /\ cur' = [NoCall EXCEPT !.op = "destroyBranches", !.n = p]

DestroyBranches ==
    /\ Idle
    /\ maint < MaxMaint
    /\ \E p \in Paths : DestroyBranchesAt(p)
    /\ maint' = maint + 1
    /\ UNCHANGED <<stack, frame, visited>>

Next == BeginFrame \/ RenderTree \/ ClearTree \/ DestroyBranches

Spec == Init /\ [][Next]_vars

\* ------------------------------------------------ the tree without a camera

\* createChildrenNodes on a node without children, as traverseNodes calls it
CreateChildrenNodes ==
    /\ Idle
    /\ planet.createdNodesCount + 4 <= MaxCreated
    /\ \E p \in Paths :
          /\ node[p].live /\ ~node[p].ready /\ Len(p) < TreeDepth
          /\ Commit(createChildrenNodes(Heap, p))
          /\ cur' = [NoCall EXCEPT !.op = "createChildrenNodes", !.n = p]
    /\ UNCHANGED <<stack, frame, maint, visited>>

TreeDestroyBranches ==
    /\ Idle
    /\ \E p \in Paths : DestroyBranchesAt(p)
    /\ UNCHANGED <<stack, frame, maint, visited>>

\* getEqualNeighbor(side) on a live node; a throw ends the run
GetEqualNeighbor ==
    /\ Idle
    /\ \E p \in Paths, side \in Sides :
          /\ node[p].live
          /\ LET r == getEqualNeighbor(Heap, p, side)
             IN  /\ cur' = [NoCall EXCEPT !.op = "getEqualNeighbor", !.n = p,
                                          !.side = side, !.res = r]
                 /\ err' = IF r = THROWN THEN "TypeError" ELSE err
    /\ UNCHANGED <<node, seg, planet, camera, stack, frame, maint, visited>>

NextTree == CreateChildrenNodes \/ TreeDestroyBranches \/ GetEqualNeighbor

SpecTree == Init /\ [][NextTree]_vars

\* clearBranches on a node of the tree
ClearBranches ==
    /\ Idle
    /\ \E p \in Paths :
          /\ node[p].live
          /\ \E h \in {clearBranches(Heap, p)} :
                /\ Commit(h)
                /\ cur' = [NoCall EXCEPT !.op = "clearBranches", !.n = p,
                                         !.log = h.log]
    /\ UNCHANGED <<stack, frame, maint, visited>>

NextBranches == CreateChildrenNodes \/ TreeDestroyBranches \/ ClearBranches

SpecBranches == Init /\ [][NextBranches]_vars

\* ------------------------------------- frames with terrain and normal maps

\* a terrain whose provider serves zooms 0 and 1
LitTerrain == Terrain(<<2, 1, 1>>, 1, 2)

InitTerrain == InitWith(LitTerrain, TRUE)

\* the provider answers a request between two frames: the segment gets its
\* own terrain (exists) or learns that there is none
TerrainLoaded ==
    /\ Idle
    /\ \E p \in Paths, exists \in BOOLEAN :
          /\ node[p].live
          /\ seg[p].terrainIsLoading
          /\ seg[p].tileZoom <= planet.terrain.maxZoom
          /\ LET own == [from |-> node[p].nodeId, i0 |-> 0, j0 |-> 0,
                         size |-> seg[p].gridSize]
                 maps == [own EXCEPT !.size = planet.terrain.fileGridSize]
             IN  seg' = [seg EXCEPT
                           ![p].terrainReady = TRUE,
                           ![p].terrainIsLoading = FALSE,
                           ![p].terrainExists = exists,
                           ![p].terrainVertices = IF exists THEN own ELSE NoVerts,
                           ![p].normalMapNormals = IF exists THEN maps ELSE NoVerts]
          /\ cur' = [NoCall EXCEPT !.op = "terrainLoaded", !.n = p]
    /\ UNCHANGED <<node, planet, camera, stack, frame, maint, err, visited>>

\* the normal map worker finishes the segment at the head of its queue
NormalMapDone ==
    /\ Idle
    /\ planet.queue # <<>>
    /\ LET q == Head(planet.queue)
       IN  /\ seg' = IF IsNode(q)
                     THEN [seg EXCEPT ![q].normalMapReady = TRUE,
                                      ![q].inTheQueue = FALSE,
                                      ![q].normalMapTexture = q]
                     ELSE seg
           /\ cur' = [NoCall EXCEPT !.op = "normalMapDone", !.n = q]
    /\ planet' = [planet EXCEPT !.queue = Tail(planet.queue)]
    /\ UNCHANGED <<node, camera, stack, frame, maint, err, visited>>

NextTerrain == BeginFrame \/ RenderTree \/ TerrainLoaded \/ NormalMapDone

SpecTerrain == InitTerrain /\ [][NextTerrain]_vars

\* the same with the camera above the near field in every frame
QueueBeginFrame == BeginFrameOf(QueueFrames, {5000000})

NextQueue == QueueBeginFrame \/ RenderTree \/ TerrainLoaded \/ NormalMapDone

SpecQueue == InitTerrain /\ [][NextQueue]_vars

\* frames over the plain planet, whose terrain grid is fine enough for every
\* node to take a mesh from any ancestor, with the provider answering
NextLoaded == QueueBeginFrame \/ RenderTree \/ TerrainLoaded

SpecLoaded == Init /\ [][NextLoaded]_vars

\* ------------------------------------------- frames with an explicit maxZoom

\* a terrain whose grid table ends at zoom 1
ShallowTerrain == Terrain(<<2, 1>>, 1, 2)

InitZoom == InitWith(ShallowTerrain, TRUE)

\* what the driver passes as renderTree's maxZoom: -1 for no argument
ZoomArgs == {-1, 0, 1, 3}

\* the camera over the tile NE, within MAX_LAT and beyond it
ZoomPositions == {<<1, 1>>, <<1, POLE>>}

\* the driver starts a frame and calls renderTree(maxZoom) on the root with
\* an argument of its choice
ZoomBeginFrame ==
    /\ Idle
    /\ frame < QueueFrames
    /\ \E mz \in ZoomArgs, pos \in ZoomPositions :
          camera' = [camera EXCEPT !.height = 5000000, !.lonLat = pos,
                                   !.maxZoom = mz]
    /\ planet' = [planet EXCEPT !.renderedNodes = <<>>, !.minCurrZoom = 99,
                                !.maxCurrZoom = -1]
    /\ stack' = <<Root>>
    /\ frame' = frame + 1
    /\ cur' = [NoCall EXCEPT !.op = "beginFrame"]
    /\ visited' = {}
    /\ UNCHANGED <<node, seg, maint, err>>

NextZoom == ZoomBeginFrame \/ RenderTree \/ TerrainLoaded \/ NormalMapDone

SpecZoom == InitZoom /\ [][NextZoom]_vars

\* when a call of renderTree can be made: one is pending and none has thrown
RenderTreeEnabled ==
    stack # <<>> /\ err = "none" /\ CameraAnswers(Head(stack)) # {}

\* renderTree runs on the driver's thread, so a call that has begun is carried
\* on: weak fairness of RenderTree, its enabling condition written out
SpecZoomFair ==
    SpecZoom /\ ([]<>~RenderTreeEnabled \/ []<><<RenderTree>>_vars)

\* ------------------------------------------------------------------- claims

\* the root's renderTree call of the current frame has returned
FrameDone == stack = <<>> /\ err = "none" /\ cur.op = "renderTree"

\* the nodes registered in planet._renderedNodes
Rendered == {planet.renderedNodes[i] : i \in DOMAIN planet.renderedNodes}

\* C1: after a frame, for every two nodes A and B in renderedNodes and every
\* side s, A.neighbors[s] = B implies B.neighbors[opposite(s)] = A
C1_NeighborSymmetry ==
    FrameDone =>
        \A A \in Rendered, B \in Rendered, s \in Sides :
            node[A].neighbors[s] = B => node[B].neighbors[opside(s)] = A

\* the nodes of the tree destroy() has not run on
Live == {q \in Paths : node[q].live}

\* C2: once destroy has run on a node D, no live node X has X.neighbors[s] = D
\* on any side s: the neighbour arrays of live nodes never refer to a
\* destroyed node
C2_NoDestroyedNeighbor ==
    \A X \in Live, s \in Sides : node[X].neighbors[s] # DESTROYED

\* renderTree went on from q into its four children in this frame
SplitInFrame(q, seen) ==
    node[q].ready /\ \A k \in Parts : Child(q, k) \in seen

\* one call of renderTree on the node at the top of the stack writes the state
\* of that node alone, once in a frame, and leaves it one of the three states
C3_OneWrite ==
    LET p == Head(stack)
    IN  /\ p \notin visited
        /\ node'[p].state \in {WALKTHROUGH, RENDERING, NOTRENDERING}
        /\ \A q \in Paths \ {p} : node'[q].state = node[q].state

\* C3 as stated: within a frame a node's state changes only along
\* null -> WALKTHROUGH -> {RENDERING, NOTRENDERING}, and when the root's call
\* returns no node visited in the frame is left WALKTHROUGH
C3_NoWalkthroughLeft ==
    [][stack # <<>> =>
          /\ C3_OneWrite
          /\ FrameDone' => \A q \in visited' : node'[q].state # WALKTHROUGH]_vars

\* C3 amended: within a frame a node's state is written by its own renderTree
\* call alone, and when the root's call returns a visited node is WALKTHROUGH
\* exactly if it split and recursed into its children, else RENDERING or
\* NOTRENDERING
C3_WalkthroughIffSplit ==
    [][stack # <<>> =>
          /\ C3_OneWrite
          /\ FrameDone' =>
                \A q \in visited' :
                    (node'[q].state = WALKTHROUGH) <=> SplitInFrame(q, visited)']_vars

\* a second frame has ended with a split node below the root, a rendered
\* node, and a node hidden over the children an earlier frame gave it
C3_Witness ==
    /\ FrameDone /\ frame = 2
    /\ \E q \in visited : q # Root /\ node[q].state = WALKTHROUGH
    /\ \E q \in visited : node[q].state = RENDERING
    /\ \E q \in visited : node[q].state = NOTRENDERING /\ node[q].ready

\* samples per unit of the root's side that node q puts on its side s
Density(q, s) == node[q].sideSize[s] * Pow2(seg[q].tileZoom)

\* the two segments can put the same density on a shared edge with counts
\* between 1 and their grid sizes
EqualReachable(A, B) ==
    \E x \in 1..seg[A].gridSize, y \in 1..seg[B].gridSize :
        x * Pow2(seg[A].tileZoom) = y * Pow2(seg[B].tileZoom)

\* C4: after any sequence of frames, every pair A, B of rendered nodes with
\* A.neighbors[s] = B has the same sample density on the shared edge when
\* counts within the grid sizes can give it, and otherwise one scaled count
\* divides the other
C4_SeamDensity ==
    FrameDone =>
        \A A \in Rendered, B \in Rendered, s \in Sides :
            node[A].neighbors[s] = B =>
                LET a == Density(A, s)
                    b == Density(B, opside(s))
                IN  IF EqualReachable(A, B) THEN a = b
                    ELSE a % b = 0 \/ b % a = 0

\* the segments handed to the normal map worker and not yet finished by it
Queued == {planet.queue[i] : i \in DOMAIN planet.queue}

\* C5: between two completions of the worker no segment is handed to
\* _normalMapCreator.queue twice, neither by its own node nor by the deeper
\* nodes that enqueue their maxZoom ancestor: the queue holds a segment at
\* most once, and exactly the segments whose _inTheQueue is set
C5_EnqueueOnce ==
    /\ \A i \in DOMAIN planet.queue, j \in DOMAIN planet.queue :
           planet.queue[i] = planet.queue[j] => i = j
    /\ \A q \in Live : seg[q].inTheQueue <=> q \in Queued

\* renderNode has just called whileNormalMapCreating on a node whose segment
\* an earlier call enqueued and the worker has not finished: but for
\* _inTheQueue the segment is fit for the queue, and the call queued nothing
C5_Witness ==
    /\ cur.op = "renderTree" /\ err = "none"
    /\ IsNode(cur.n) /\ node[cur.n].state = RENDERING
    /\ planet.lightEnabled
    /\ ~seg[cur.n].normalMapReady /\ ~seg[cur.n].parentNormalMapReady
    /\ enqueueGuardNoFlag(seg[cur.n], planet.terrain.maxZoom)
    /\ seg[cur.n].inTheQueue
    /\ cur.log.queued = <<>>

\* the same for the maxZoom ancestor: a deeper node's call found its ancestor
\* already in the queue and queued nothing
C5_AncestorCase ==
    /\ cur.op = "renderTree" /\ err = "none"
    /\ IsNode(cur.n) /\ node[cur.n].state = RENDERING
    /\ seg[cur.n].tileZoom > planet.terrain.maxZoom
    /\ ~seg[cur.n].normalMapReady /\ ~seg[cur.n].parentNormalMapReady
    /\ seg[Parent(cur.n)].inTheQueue /\ ~seg[Parent(cur.n)].terrainIsLoading
    /\ cur.log.queued = <<>>

\* the unit cells of the plane an extent covers
Cells(ext) ==
    {<<x, y>> : x \in ext.swLon..(ext.neLon - 1), y \in ext.swLat..(ext.neLat - 1)}

\* the quadrant of ext that slot part names, split at the midpoint
Quadrant(ext, part) ==
    LET midLon == ext.swLon + getWidth(ext) \div 2
        midLat == ext.swLat + getHeight(ext) \div 2
    IN  MkExtent(IF part \in {NW, SW} THEN ext.swLon ELSE midLon,
                 IF part \in {SW, SE} THEN ext.swLat ELSE midLat,
                 IF part \in {NW, SW} THEN midLon ELSE ext.neLon,
                 IF part \in {SW, SE} THEN midLat ELSE ext.neLat)

\* the live descendants of r that are d levels below it
Descendants(r, d) ==
    {q \in Live : Len(q) = Len(r) + d /\ SubSeq(q, 1, Len(r)) = r}

\* C6: the four children of a node hold the four equal quadrants of its
\* extent, one zoom deeper; two distinct descendants of one depth share no
\* area, and the descendants of a fully populated depth cover the extent of
\* the subtree's root
C6_Coverage ==
    /\ \A q \in Live : node[q].ready =>
           \A k \in Parts :
               LET c == node[q].nodes[k]
               IN  /\ c \in Live
                   /\ seg[c].extent = Quadrant(seg[q].extent, k)
                   /\ 2 * getWidth(seg[c].extent) = getWidth(seg[q].extent)
                   /\ 2 * getHeight(seg[c].extent) = getHeight(seg[q].extent)
                   /\ seg[c].tileZoom = seg[q].tileZoom + 1
    /\ \A r \in Live : \A d \in 1..(TreeDepth - Len(r)) :
           LET ds == Descendants(r, d)
           IN  /\ \A a \in ds, b \in ds :
                      a # b => Cells(seg[a].extent) \cap Cells(seg[b].extent) = {}
               /\ Cardinality(ds) = 4 ^ d =>
                      UNION {Cells(seg[a].extent) : a \in ds} = Cells(seg[r].extent)

\* every node down to the deepest zoom has been created
C6_Witness ==
    /\ stack = <<>>
    /\ \A q \in Paths : Len(q) <= 2 => node[q].live
    /\ Cardinality(Descendants(Root, 2)) = 16

\* C7: every child has nodeId = parent.nodeId * 4 + partId + 1, and no two
\* live nodes of the tree have the same nodeId, whatever splits,
\* destroyBranches and re-splits came before
C7_NodeIds ==
    /\ \A q \in Live : q # Root =>
           /\ node[q].partId = q[Len(q)]
           /\ node[q].nodeId = node[Parent(q)].nodeId * 4 + node[q].partId + 1
    /\ \A a \in Live, b \in Live : node[a].nodeId = node[b].nodeId => a = b

\* a branch was destroyed and split again: more nodes were constructed than
\* are alive, and the deepest zoom is populated
C7_Witness ==
    /\ Cardinality(Live) < planet.createdNodesCount
    /\ cur.op = "createChildrenNodes"
    /\ \E q \in Live : Len(q) = 2

\* what C8 says of the call that registered node A, for one node B that was
\* registered before it: B shares side cs with A and its flag on the facing
\* side was not set, so the pair negotiates
C8_Pair(A, B) ==
    LET cs == getCommonSide(seg[A].extent, seg[A].tileZoom, seg[B].extent)
        opcs == opside(cs)
        ag == seg'[A].gridSize
        bg == seg'[B].gridSize
        num == ag * Pow2(seg[A].tileZoom)
        den == bg * Pow2(seg[B].tileZoom)
    IN  (cs # -1 /\ ~node[B].hasNeighbor[opside(cs)]) =>
            /\ num > den =>
                   /\ node'[A].sideSize[cs] = CeilDiv(ag * den, num)
                   /\ node'[B].sideSize[opcs] = bg
            /\ num < den =>
                   /\ node'[A].sideSize[cs] = ag
                   /\ node'[B].sideSize[opcs] = CeilDiv(bg * num, den)
            /\ num = den =>
                   /\ node'[A].sideSize[cs] = ag
                   /\ node'[B].sideSize[opcs] = bg
            /\ node'[A].neighbors[cs] = B
            /\ node'[B].neighbors[opcs] = A
            /\ node'[A].hasNeighbor[cs] /\ node'[B].hasNeighbor[opcs]

\* C8: when addToRender on node A finds a registered node B on a common side
\* and negotiates, the two side sizes are ceil(A.gridSize / ld) and B.gridSize
\* for ld > 1, A.gridSize and ceil(B.gridSize * ld) for ld < 1, the two grid
\* sizes for ld = 1; A and B are each other's neighbour on the facing sides,
\* both flags are set and A is appended to renderedNodes once
C8_Negotiation ==
    [][(stack # <<>> /\ err' = "none" /\ node'[Head(stack)].state = RENDERING) =>
          LET A == Head(stack)
          IN  /\ A \notin Rendered
              /\ planet'.renderedNodes = Append(planet.renderedNodes, A)
              /\ \A B \in Rendered : C8_Pair(A, B)]_vars

\* C9: prepareForRendering(h, altVis, onlyTerrain) leaves the node
\* NOTRENDERING, unregistered and without a terrain request when h < 3,000,000
\* and altVis is false; in every other case it runs renderNode, after which
\* the node is RENDERING and the last element of renderedNodes
C9_NearField ==
    [][(stack # <<>>
        /\ decision(Heap, Head(stack), camera.maxZoom, cur'.in) = "prepare") =>
          LET p == Head(stack)
              rn == planet'.renderedNodes
          IN  IF camera.height < NEAR_HEIGHT /\ ~cur'.in.altVis
              THEN /\ node'[p].state = NOTRENDERING
                   /\ rn = planet.renderedNodes
                   /\ cur'.log.loads = <<>>
              ELSE /\ node'[p].state = RENDERING
                   /\ rn = Append(planet.renderedNodes, p)]_vars

\* the extent of the same size that adjoins ext across side s
Across(ext, s) ==
    CASE s = N -> MkExtent(ext.swLon, ext.neLat, ext.neLon, ext.neLat + getHeight(ext))
      [] s = E -> MkExtent(ext.neLon, ext.swLat, ext.neLon + getWidth(ext), ext.neLat)
      [] s = S -> MkExtent(ext.swLon, ext.swLat - getHeight(ext), ext.neLon, ext.swLat)
      [] OTHER -> MkExtent(ext.swLon - getWidth(ext), ext.swLat, ext.swLon, ext.neLat)

\* extent a lies within extent b
Within(a, b) ==
    /\ a.swLon >= b.swLon /\ a.neLon <= b.neLon
    /\ a.swLat >= b.swLat /\ a.neLat <= b.neLat

\* the deepest live node whose extent holds the place t
DeepestAt(t) ==
    LET holding == {q \in Live : Within(t, seg[q].extent)}
    IN  CHOOSE q \in holding : \A r \in holding : Len(r) <= Len(q)

\* C10: getEqualNeighbor(side) on any node n returns the node of n's depth
\* whose extent adjoins n's across that side when it exists, and the deepest
\* existing ancestor of that place when the branch there is not populated
C10_EqualNeighbor ==
    cur.op = "getEqualNeighbor" =>
        LET t == Across(seg[cur.n].extent, cur.side)
        IN  /\ cur.res # THROWN
            /\ Within(t, RootExtent) => cur.res = DeepestAt(t)

\* path a names the node at b or one of its ancestors
Prefix(a, b) == Len(a) <= Len(b) /\ SubSeq(b, 1, Len(a)) = a

\* the two extents have a stretch of edge in common, the edge at +/-POLE
\* longitude being one edge
EdgeShared(a, b) ==
    \/ /\ \/ a.neLon = b.swLon
           \/ a.swLon = b.neLon
           \/ (a.neLon = POLE /\ b.swLon = -POLE)
           \/ (a.swLon = -POLE /\ b.neLon = POLE)
       /\ a.swLat < b.neLat
       /\ b.swLat < a.neLat
    \/ /\ \/ a.neLat = b.swLat
           \/ a.swLat = b.neLat
       /\ a.swLon < b.neLon
       /\ b.swLon < a.neLon

\* A.getCommonSide(B) for the nodes at A and B
CommonSide(A, B) == getCommonSide(seg[A].extent, seg[A].tileZoom, seg[B].extent)

\* C11: for two nodes A and B of the tree, neither an ancestor of the other,
\* a side s returned by A.getCommonSide(B) is answered by opposite(s) from
\* B.getCommonSide(A), also across the +/-POLE longitude wrap, and
\* getCommonSide returns -1 when the extents share no edge
C11_CommonSide ==
    \A A \in Live, B \in Live :
        (~Prefix(A, B) /\ ~Prefix(B, A)) =>
            /\ CommonSide(A, B) # -1 => CommonSide(B, A) = opside(CommonSide(A, B))
            /\ ~EdgeShared(seg[A].extent, seg[B].extent) => CommonSide(A, B) = -1

\* what C12 says of the call that registered node A, for one node B that was
\* registered before it and shares a side with A: a flag that was set before
\* the match keeps B's side size as it was (B is matched once in the call and
\* nothing else in the call writes B's side sizes), and the links are set
C12_Pair(A, B) ==
    LET cs == CommonSide(A, B)
        opcs == opside(cs)
    IN  (cs # -1 /\ (node[A].hasNeighbor[cs] \/ node[B].hasNeighbor[opcs])) =>
            /\ node'[B].sideSize[opcs] = node[B].sideSize[opcs]
            /\ node'[B].neighbors[opcs] = A

\* C12: when addToRender matches node A with a registered node B on sides
\* cs/opcs, the side sizes are rewritten only if both A.hasNeighbor[cs] and
\* B.hasNeighbor[opcs] were false before the match; if either flag was set
\* the side sizes stay as they were and only the links are installed
C12_NegotiationGuard ==
    [][(stack # <<>> /\ err' = "none" /\ node'[Head(stack)].state = RENDERING) =>
          \A B \in Rendered : C12_Pair(Head(stack), B)]_vars

\* A.hasNeighbor[cs] as the match with renderedNodes[i] finds it: set before
\* the call, or by the match with a node behind i on the same side (the loop
\* runs from the last registered node to the first)
C12_FlagBefore(A, i, cs) ==
    \/ node[A].hasNeighbor[cs]
    \/ \E j \in (i + 1)..Len(planet.renderedNodes) :
           CommonSide(A, planet.renderedNodes[j]) = cs

\* both flags were set when A was matched with renderedNodes[i]
C12_Both(A, i) ==
    LET B == planet.renderedNodes[i]
        cs == CommonSide(A, B)
    IN  C12_FlagBefore(A, i, cs) /\ node[B].hasNeighbor[opside(cs)]

\* the counts the match of A with B negotiates
C12_Sizes(A, B) ==
    negotiate(seg'[A].gridSize, seg[A].tileZoom, seg'[B].gridSize, seg[B].tileZoom)

\* what the amended C12 says of B = renderedNodes[i] after the call
C12_Match(A, i) ==
    LET B == planet.renderedNodes[i]
        cs == CommonSide(A, B)
        opcs == opside(cs)
    IN  cs # -1 =>
            /\ node'[B].neighbors[opcs] = A
            /\ node'[B].hasNeighbor[opcs] /\ node'[A].hasNeighbor[cs]
            /\ IF C12_Both(A, i)
               THEN node'[B].sideSize[opcs] = node[B].sideSize[opcs]
               ELSE node'[B].sideSize[opcs] = C12_Sizes(A, B)[2]

\* what it says of A's side cs after the call: the count of the last match
\* that negotiated, and the count A had when every match was skipped (the
\* mesh of A not having been rebuilt in the call)
C12_Side(A, cs) ==
    LET on == {i \in DOMAIN planet.renderedNodes :
                  CommonSide(A, planet.renderedNodes[i]) = cs}
        negotiated == {i \in on : ~C12_Both(A, i)}
    IN  IF negotiated # {}
        THEN LET i == CHOOSE k \in negotiated : \A m \in negotiated : k <= m
             IN  node'[A].sideSize[cs] = C12_Sizes(A, planet.renderedNodes[i])[1]
        ELSE (on # {} /\ node'[A].appliedTerrainNodeId = node[A].appliedTerrainNodeId)
                 => node'[A].sideSize[cs] = node[A].sideSize[cs]

\* C12 amended: when addToRender matches node A with a registered node B on
\* sides cs/opcs, the links are installed, and the two side sizes are
\* rewritten with the negotiated counts (and both flags set) unless both
\* A.hasNeighbor[cs] and B.hasNeighbor[opcs] were true before the match; only
\* when both flags were set are the side sizes left as they were
C12_RewriteUnlessBoth ==
    [][(stack # <<>> /\ err' = "none" /\ node'[Head(stack)].state = RENDERING) =>
          /\ \A i \in DOMAIN planet.renderedNodes : C12_Match(Head(stack), i)
          /\ \A cs \in Sides : C12_Side(Head(stack), cs)]_vars

\* the call just made registered a node and matched it with a registered
\* node while exactly one of the two flags was set
C12_Witness ==
    /\ cur.op = "renderTree" /\ err = "none"
    /\ IsNode(cur.n) /\ node[cur.n].state = RENDERING
    /\ \E i \in DOMAIN cur.log.matched : cur.log.matched[i].a # cur.log.matched[i].b

\* the same with both flags set: the guard skipped the negotiation
C12_BothSet ==
    /\ cur.op = "renderTree" /\ err = "none"
    /\ IsNode(cur.n) /\ node[cur.n].state = RENDERING
    /\ \E i \in DOMAIN cur.log.matched : cur.log.matched[i].a /\ cur.log.matched[i].b

\* the effective state of the node at q is RENDERING or NOTRENDERING
Shown(q) == getState(Heap, q) \in {RENDERING, NOTRENDERING}

\* the live nodes below a node whose effective state is RENDERING or
\* NOTRENDERING
BelowShown == {q \in Live : \E a \in Live : a # q /\ Prefix(a, q) /\ Shown(a)}

\* what C13 says of one call of clearTree on the root
C13_Call ==
    /\ err' = "none"
    /\ node'[Root].live
    /\ {q \in Paths : node'[q].live} = Live \ BelowShown
    /\ \A q \in Paths :
           node'[q].live =>
               /\ node'[q].ready => node'[q].state = WALKTHROUGH
               /\ node'[q].state \in {RENDERING, NOTRENDERING} => ~node'[q].ready

\* C13: clearTree called on the root in any reachable tree state, before the
\* first frame included, completes without error and destroys exactly the
\* descendants of the nodes whose effective state is RENDERING or
\* NOTRENDERING; afterwards a node with children is WALKTHROUGH, a RENDERING or
\* NOTRENDERING node has ready = false, and the root is not destroyed
C13_ClearTree ==
    [][(cur'.op = "clearTree" /\ maint' # maint) => C13_Call]_vars

\* the live nodes below the node at r
Below(r) == {q \in Live : q # r /\ Prefix(r, q)}

\* C14: clearBranches called on any node of a reachable tree (a leaf never
\* split, a split node, a node whose branches were destroyed) ends without
\* error, calls deleteMaterials on the segment of every descendant exactly
\* once and leaves the tree as it was
C14_ClearBranches ==
    [][cur'.op = "clearBranches" =>
          /\ err' = "none"
          /\ Len(cur'.log.deleted) = Cardinality(Below(cur'.n))
          /\ {cur'.log.deleted[i] : i \in DOMAIN cur'.log.deleted} = Below(cur'.n)
          /\ node' = node /\ seg' = seg]_vars

\* the four child slots of the node at q hold live nodes
FourChildren(q) ==
    \A k \in Parts :
        /\ k \in DOMAIN node[q].nodes
        /\ IsNode(node[q].nodes[k])
        /\ node[node[q].nodes[k]].live

\* ready says whether the children are there, and destroyBranches does
\* nothing on a node that is not ready
C15_Ready ==
    \A q \in Live :
        /\ node[q].ready <=> FourChildren(q)
        /\ ~node[q].ready => destroyBranches(Heap, q) = Heap

\* a step that constructs nodes is the split of a node that had no children:
\* it constructs four fresh children in slots that held no live node
C15_Split ==
    planet'.createdNodesCount # planet.createdNodesCount =>
        /\ stack # <<>>
        /\ ~node[Head(stack)].ready /\ node'[Head(stack)].ready
        /\ planet'.createdNodesCount = planet.createdNodesCount + 4
        /\ \A k \in Parts :
               /\ ~node[Child(Head(stack), k)].live
               /\ node'[Child(Head(stack), k)] =
                      NewNode(k, Head(stack), ChildIdBase(node[Head(stack)].nodeId))

\* destroyBranches on the node at cur'.n destroys the nodes below it and no
\* other, and leaves it without children
C15_Destroy ==
    (cur'.op = "destroyBranches" /\ maint' # maint) =>
        /\ err' = "none"
        /\ ~node'[cur'.n].ready
        /\ {q \in Paths : node'[q].live} = Live \ Below(cur'.n)

\* C15: under any interleaving of renderTree, clearTree and destroyBranches a
\* node is ready exactly if its four child slots hold live nodes;
\* createChildrenNodes never runs on a node that is ready; destroyBranches
\* sets ready = false and destroys every descendant, does nothing on a node
\* that is not ready, and a later split makes four fresh children
C15_Lifecycle ==
    /\ []C15_Ready
    /\ [][C15_Split /\ C15_Destroy]_vars

\* the root's branches were destroyed after a frame had split it, and the
\* call just made split the root again: its four children are fresh
C15_Witness ==
    /\ cur.op = "renderTree" /\ cur.n = Root /\ err = "none"
    /\ maint = 1
    /\ planet.createdNodesCount > Cardinality(Live)
    /\ node[Root].ready
    /\ \A k \in Parts : node[<<k>>].live /\ node[<<k>>].state = STATE_NULL

\* the segments the call just made called loadTerrain() on
Loads == {cur.log.loads[i] : i \in DOMAIN cur.log.loads}

\* the call about to be made on the node at the top of the stack runs
\* renderNode on it for the camera's answer in
RunsRenderNode(in) ==
    /\ stack # <<>>
    /\ decision(Heap, Head(stack), camera.maxZoom, in) = "prepare"
    /\ ~(camera.height < NEAR_HEIGHT /\ ~in.altVis)

\* the node at p is deeper than terrain.maxZoom, has no terrain, and its
\* nearest ancestor with terrain sits at or beyond maxZoom
BackedAtMaxZoom(p) ==
    LET pn == UpToTerrainReady(Heap, p)
    IN  /\ seg[p].tileZoom > planet.terrain.maxZoom
        /\ ~seg[p].terrainReady
        /\ seg[pn].terrainReady
        /\ seg[pn].tileZoom >= planet.terrain.maxZoom

\* a node deeper than maxZoom that has terrain keeps it while it lives, and
\* no call asks the provider for it
C16_Kept ==
    \A q \in Live :
        (seg[q].tileZoom > planet.terrain.maxZoom /\ seg[q].terrainReady) =>
            /\ node'[q].live => seg'[q].terrainReady
            /\ q \notin Loads'

\* C16 as stated: renderNode on a node deeper than terrain.maxZoom whose
\* nearest terrain-ready ancestor is at or beyond maxZoom leaves it with
\* terrainReady = true and terrainIsLoading = false, and no loadTerrain
\* request is made for the node in that call or in any later frame
C16_NoLoads ==
    [][/\ (RunsRenderNode(cur'.in) /\ BackedAtMaxZoom(Head(stack))) =>
              /\ seg'[Head(stack)].terrainReady
              /\ ~seg'[Head(stack)].terrainIsLoading
              /\ Head(stack) \notin Loads'
       /\ C16_Kept]_vars

\* C16 amended: the call leaves the node with terrainReady = true and
\* terrainIsLoading = false, and no loadTerrain request is made for the node
\* in any later call; in the call itself renderNode, when whileTerrainLoading
\* has returned, calls loadTerrain() on the node once
C16_NoLaterLoads ==
    [][/\ (RunsRenderNode(cur'.in) /\ BackedAtMaxZoom(Head(stack))) =>
              /\ seg'[Head(stack)].terrainReady
              /\ ~seg'[Head(stack)].terrainIsLoading
              /\ err' = "none" => cur'.log.loads = <<Head(stack)>>
       /\ C16_Kept]_vars

\* a node declared terrain-ready in an earlier frame, with the terrain of its
\* ancestor, has just been rendered again without a request
C16_Witness ==
    /\ cur.op = "renderTree" /\ err = "none" /\ IsNode(cur.n)
    /\ node[cur.n].state = RENDERING
    /\ seg[cur.n].tileZoom > planet.terrain.maxZoom
    /\ seg[cur.n].terrainReady /\ seg[cur.n].terrainExists
    /\ node[cur.n].appliedTerrainNodeId = node[cur.n].nodeId
    /\ cur.log.loads = <<>>

\* the call just made declared the node terrain-ready
C16_Declared ==
    /\ cur.op = "renderTree" /\ err = "none" /\ IsNode(cur.n)
    /\ seg[cur.n].tileZoom > planet.terrain.maxZoom
    /\ seg[cur.n].terrainReady
    /\ cur.log.loads = <<cur.n>>

\* C17: whileTerrainLoading completes without error and returns true for
\* every node and every combination of ancestor flags, a node deeper than
\* terrain.maxZoom under a much coarser ancestor with terrain included:
\* renderNode on a node without terrain ends without error, having gone on
\* to call loadTerrain() on the node
C17_NoPanic ==
    [][(RunsRenderNode(cur'.in) /\ ~seg[Head(stack)].terrainReady) =>
          /\ err' = "none"
          /\ Head(stack) \in Loads']_vars


\* the step about to be taken runs whileNormalMapCreating on the node at the
\* top of the stack and returns
RunsNormalMap ==
    /\ RunsRenderNode(cur'.in)
    /\ planet.lightEnabled
    /\ ~seg[Head(stack)].normalMapReady
    /\ ~seg[Head(stack)].parentNormalMapReady
    /\ err' = "none"

\* the step about to be taken runs whileTerrainLoading on the node at the top
\* of the stack, takes the mesh of the ancestor the walk-up stops at, and
\* returns
RunsApplyTerrain ==
    /\ RunsRenderNode(cur'.in)
    /\ ~seg[Head(stack)].terrainReady
    /\ seg[UpToTerrainReady(Heap, Head(stack))].terrainReady
    /\ seg[UpToTerrainReady(Heap, Head(stack))].terrainExists
    /\ node[Head(stack)].appliedTerrainNodeId
           # node[UpToTerrainReady(Heap, Head(stack))].nodeId
    /\ err' = "none"

\* the bias left on the node at p is the one of the factor 2^d against pn:
\* the scale's denominator is 2^d and both offsets lie in [0, 2^d)
BiasOf(p, pn) ==
    LET dZ2 == Pow2(seg[p].tileZoom - seg[pn].tileZoom)
        b == seg'[p].normalMapTextureBias
    IN  /\ b[3] = dZ2
        /\ b[1] = seg[p].tileX - seg[pn].tileX * dZ2
        /\ b[2] = seg[p].tileY - seg[pn].tileY * dZ2
        /\ b[1] \in 0..(dZ2 - 1)
        /\ b[2] \in 0..(dZ2 - 1)

\* the mesh left on the node at p is the part of pn's grid that the factor
\* 2^d and the offsets against pn select
MeshOf(p, pn) ==
    LET dZ2 == Pow2(seg[p].tileZoom - seg[pn].tileZoom)
        offsetX == seg[p].tileX - seg[pn].tileX * dZ2
        offsetY == seg[p].tileY - seg[pn].tileY * dZ2
        pg == seg[pn].gridSize
        t == seg'[p].tempVertices
    IN  /\ offsetX \in 0..(dZ2 - 1)
        /\ offsetY \in 0..(dZ2 - 1)
        /\ t.from = node[pn].nodeId
        /\ pg >= dZ2 => /\ seg'[p].gridSize = pg \div dZ2
                        /\ t.size = pg \div dZ2
                        /\ t.i0 = (pg \div dZ2) * offsetY
                        /\ t.j0 = (pg \div dZ2) * offsetX
        /\ pg < dZ2 => /\ seg'[p].gridSize = 1
                       /\ t.i0 = (pg * offsetY) \div dZ2
                       /\ t.j0 = (pg * offsetX) \div dZ2

\* C18: in whileTerrainLoading and whileNormalMapCreating the factor dZ2 is
\* 2^(tileZoom - ancestor.tileZoom) for every zoom difference that occurs,
\* d = 0 included: the bias scale 1/dZ2 is finite and in (0, 1], and the
\* offsets against the ancestor lie in [0, dZ2)
C18_ScaleFactor ==
    [][/\ RunsNormalMap =>
              BiasOf(Head(stack), UpToNormalMapReady(Heap, Head(stack)))
       /\ RunsApplyTerrain =>
              MeshOf(Head(stack), UpToTerrainReady(Heap, Head(stack)))]_vars

\* the same for the calls whose walk-up ends on a proper ancestor (d > 0)
C18_ProperAncestor ==
    [][/\ (RunsNormalMap /\ UpToNormalMapReady(Heap, Head(stack)) # Head(stack)) =>
              BiasOf(Head(stack), UpToNormalMapReady(Heap, Head(stack)))
       /\ RunsApplyTerrain =>
              /\ UpToTerrainReady(Heap, Head(stack)) # Head(stack)
              /\ MeshOf(Head(stack), UpToTerrainReady(Heap, Head(stack)))]_vars


\* the place of a slot in the order traverseNodes visits the children
VisitRank(part) == CHOOSE k \in 1..4 : <<NW, NE, SW, SE>>[k] = part

\* a depth-first walk that visits children NW, NE, SW, SE reaches the node at
\* a before the node at b, neither being above the other
DfsBefore(a, b) ==
    \E k \in 1..Len(a) :
        /\ k <= Len(b)
        /\ SubSeq(a, 1, k - 1) = SubSeq(b, 1, k - 1)
        /\ VisitRank(a[k]) < VisitRank(b[k])

\* the nodes at a and b may stand in renderedNodes in this order: different
\* nodes, neither a descendant of the other, a visited first, their extents
\* without a common cell
Apart(a, b) ==
    /\ a # b
    /\ ~Prefix(a, b) /\ ~Prefix(b, a)
    /\ DfsBefore(a, b)
    /\ Cells(seg[a].extent) \cap Cells(seg[b].extent) = {}

C19_Pairwise ==
    \A i \in DOMAIN planet.renderedNodes, j \in DOMAIN planet.renderedNodes :
        (i < j /\ IsNode(planet.renderedNodes[i]) /\ IsNode(planet.renderedNodes[j]))
            => Apart(planet.renderedNodes[i], planet.renderedNodes[j])

\* within a frame renderedNodes changes only by the node of the running call
\* being appended: the call did not split, visits no children, and every node
\* registered before it stands apart from it
C19_Append ==
    (stack # <<>> /\ planet'.renderedNodes # planet.renderedNodes) =>
        /\ planet'.renderedNodes = Append(planet.renderedNodes, Head(stack))
        /\ decision(Heap, Head(stack), camera.maxZoom, cur'.in) = "prepare"
        /\ stack' = Tail(stack)
        /\ Head(stack) \notin visited
        /\ \A i \in DOMAIN planet.renderedNodes :
               Apart(planet.renderedNodes[i], Head(stack))

\* C19: within one frame nodes are appended to renderedNodes in depth-first
\* order with children visited NW, NE, SW, SE; a node is appended at most
\* once per frame; no node is appended in the same frame as one of its
\* descendants; the extents of the nodes in renderedNodes do not overlap
C19_Registration == /\ []C19_Pairwise
                    /\ [][C19_Append]_vars

\* a frame has registered a node of depth 1 and then, in a later quadrant,
\* a node of depth 2
C19_Witness ==
    /\ cur.op = "renderTree" /\ err = "none"
    /\ Len(planet.renderedNodes) >= 2
    /\ planet.renderedNodes[Len(planet.renderedNodes)] = cur.n
    /\ Len(cur.n) = 2
    /\ \E i \in DOMAIN planet.renderedNodes :
           /\ IsNode(planet.renderedNodes[i])
           /\ Len(planet.renderedNodes[i]) = 1


\* the nodes above the node at p
ProperAncestors(p) == {SubSeq(p, 1, k) : k \in 0..(Len(p) - 1)}

\* appliedTerrainNodeId is -1, the node's own id, or the id of a node above
\* it whose terrain is ready and exists
C20_Tracks ==
    \A q \in Live :
        \/ node[q].appliedTerrainNodeId = -1
        \/ node[q].appliedTerrainNodeId = node[q].nodeId
        \/ \E r \in ProperAncestors(q) :
               /\ node[r].live
               /\ node[r].nodeId = node[q].appliedTerrainNodeId
               /\ seg[r].terrainReady /\ seg[r].terrainExists

\* whileTerrainLoading on the node at p, its walk-up ending on pn, takes the
\* heap to w: with pn's terrain ready and existing the node is left backed by
\* pn, or by itself when declared terrain-ready; and when pn already backed
\* it the call deletes no buffers and leaves the mesh as it was
C20_Call(p, pn, w) ==
    /\ node'[p].appliedTerrainNodeId = w.node[p].appliedTerrainNodeId
    /\ (seg[pn].terrainReady /\ seg[pn].terrainExists) =>
           \/ node'[p].appliedTerrainNodeId = node[pn].nodeId
           \/ /\ seg'[p].terrainReady
              /\ node'[p].appliedTerrainNodeId = node[p].nodeId
    /\ (/\ seg[pn].terrainReady /\ seg[pn].terrainExists
        /\ node[p].appliedTerrainNodeId = node[pn].nodeId) =>
           /\ w.log.deleted = <<>>
           /\ w.seg[p].hasBuffers = seg[p].hasBuffers
           /\ w.seg[p].gridSize = seg[p].gridSize
           /\ w.node[p].sideSize = node[p].sideSize
           /\ w.seg[p].tempVertices = seg[p].tempVertices
           /\ seg'[p].hasBuffers = seg[p].hasBuffers
           /\ seg'[p].gridSize = seg[p].gridSize
           /\ seg'[p].tempVertices = seg[p].tempVertices
    /\ w.log.deleted # <<>> =>
           /\ seg[pn].terrainReady /\ seg[pn].terrainExists
           /\ node[p].appliedTerrainNodeId # node[pn].nodeId
    /\ cur'.log.deleted = w.log.deleted

\* C20: appliedTerrainNodeId tracks the backing ancestor: it is -1, the
\* node's own nodeId or the nodeId of a proper ancestor with ready, existing
\* terrain; after a whileTerrainLoading call whose nearest terrain-ready
\* ancestor P has terrainExists it is P.nodeId (or the node's own nodeId if
\* the node was declared terrain-ready); a repeated call with the same P
\* leaves buffers, gridSize, sideSize and tempVertices unchanged
C20_AppliedTerrain ==
    /\ []C20_Tracks
    /\ [][(RunsRenderNode(cur'.in) /\ ~seg[Head(stack)].terrainReady) =>
              C20_Call(Head(stack), UpToTerrainReady(Heap, Head(stack)),
                       whileTerrainLoading(Heap, Head(stack)))]_vars

\* renderNode has run whileTerrainLoading again on a node that the same
\* ancestor already backed: no buffer was deleted
C20_Witness ==
    /\ cur.op = "renderTree" /\ err = "none"
    /\ IsNode(cur.n) /\ node[cur.n].state = RENDERING
    /\ ~seg[cur.n].terrainReady
    /\ UpToTerrainReady(Heap, cur.n) # cur.n
    /\ seg[UpToTerrainReady(Heap, cur.n)].terrainReady
    /\ seg[UpToTerrainReady(Heap, cur.n)].terrainExists
    /\ node[cur.n].appliedTerrainNodeId = node[UpToTerrainReady(Heap, cur.n)].nodeId
    /\ cur.log.deleted = <<>>

\* the first such call: the buffers were deleted and rebuilt from the ancestor
C20_FirstApplied ==
    /\ cur.op = "renderTree" /\ err = "none"
    /\ IsNode(cur.n) /\ node[cur.n].state = RENDERING
    /\ node[cur.n].appliedTerrainNodeId = node[UpToTerrainReady(Heap, cur.n)].nodeId
    /\ UpToTerrainReady(Heap, cur.n) # cur.n
    /\ cur.log.deleted = <<cur.n>>


\* C21: after every frame, for every live node n of the tree, n.getState() is
\* RENDERING if and only if n is in renderedNodes; nodes left over from
\* earlier frames under an ancestor that now renders or is hidden report
\* NOTRENDERING though their own state field may still be RENDERING
C21_EffectiveState ==
    FrameDone =>
        \A n \in Live : (getState(Heap, n) = RENDERING) <=> (n \in Rendered)

\* a frame has ended with a registered node and with a node left over from an
\* earlier frame: its own state field is still RENDERING, an ancestor has
\* stopped walking through, and it is not registered
C21_Witness ==
    /\ FrameDone
    /\ Rendered # {}
    /\ \E n \in Live :
           /\ node[n].state = RENDERING
           /\ getState(Heap, n) = NOTRENDERING
           /\ n \notin Rendered
           /\ n \notin visited


\* the deepest zoom renderTree may reach: max(2, gridSizeByZoom.length - 1)
ZoomBound ==
    IF Len(planet.terrain.gridSizeByZoom) - 1 > 2
    THEN Len(planet.terrain.gridSizeByZoom) - 1 ELSE 2

\* the nodes a tree of that depth can hold
NodesWithin(d) == (4 ^ (d + 1) - 1) \div 3

\* no node deeper than the bound exists or awaits its renderTree call, and a
\* frame has made at most one call per node of a tree of that depth
C22_Depth ==
    /\ \A q \in Live : seg[q].tileZoom <= ZoomBound
    /\ \A i \in DOMAIN stack : Len(stack[i]) <= ZoomBound
    /\ planet.createdNodesCount <= NodesWithin(ZoomBound) * (frame + 1)
    /\ Cardinality(visited) <= NodesWithin(ZoomBound)

\* a call of renderTree runs on a node the frame has not visited yet, and
\* goes on into children only from a node above the bound
C22_Call ==
    stack # <<>> =>
        /\ Head(stack) \notin visited
        /\ Len(stack') > Len(stack) => seg[Head(stack)].tileZoom < ZoomBound

\* the calls still to be made, counted as if each went on to the bound
RECURSIVE Pending(_)
Pending(st) ==
    IF st = <<>> THEN 0
    ELSE (IF Len(Head(st)) > ZoomBound THEN 1
          ELSE NodesWithin(ZoomBound - Len(Head(st)))) + Pending(Tail(st))

\* C22: renderTree on the root terminates for every camera state and every
\* combination of segment flags, and never creates or visits a node with
\* tileZoom greater than max(2, terrain.gridSizeByZoom.length - 1), whatever
\* acceptForRendering returns and whatever maxZoom is passed
C22_Terminates ==
    /\ []C22_Depth
    /\ []((stack # <<>> /\ err = "none") => RenderTreeEnabled)
    /\ [][C22_Call /\ (stack # <<>> => Pending(stack') < Pending(stack))]_vars
    /\ (stack # <<>>) ~> (stack = <<>>)

\* a frame called with an explicit maxZoom beyond the grid table has returned
\* after visiting a node of zoom 2, deeper than gridSizeByZoom.length - 1
C22_Witness ==
    /\ FrameDone
    /\ camera.maxZoom = 3
    /\ Len(planet.terrain.gridSizeByZoom) - 1 < 2
    /\ \E q \in visited : seg[q].tileZoom = 2

\* C23: when renderTree is called with an explicit maxZoom >= 1, every node
\* registered in renderedNodes in that frame has tileZoom <= maxZoom, also
\* when segments at tileZoom < 2 have normalMapReady set
C23_MaxZoomCap ==
    camera.maxZoom >= 1 =>
        \A i \in DOMAIN planet.renderedNodes :
            seg[planet.renderedNodes[i]].tileZoom <= camera.maxZoom

\* the same for the frames in which no segment above the argument's zoom has
\* its normal map
C23_NoForcedSplit ==
    (camera.maxZoom >= 1
     /\ \A q \in Live : seg[q].tileZoom <= camera.maxZoom => ~seg[q].normalMapReady) =>
        \A i \in DOMAIN planet.renderedNodes :
            seg[planet.renderedNodes[i]].tileZoom <= camera.maxZoom

====
